---- MODULE Spec2Model ----
(***************************************************************************)
(* Expedition Roster CLI (expedition_cli.py): the Store, its backing file  *)
(* and the command loop.                                                   *)
(*                                                                         *)
(* A Python str is modelled as the sequence of its Unicode code points, so *)
(* that strip(), lower(), the regular expression of add() and the string   *)
(* ordering used by sorted() are computed as Python computes them.         *)
(* Literal message texts are written as ASCII transliterations.            *)
(***************************************************************************)
EXTENDS Naturals, Integers, Sequences, FiniteSets, TLC

VARIABLES members, file, ret, out, input, pc, removed

vars == <<members, file, ret, out, input, pc, removed>>

(* ---------------------------- settings ---------------------------------- *)

\* BUG_MODE = True (line 19)
BUG_MODE == TRUE

\* ROLES = ("shturman", "voditel'", "gruzchik", "mehanik") as code points
ROLES == << <<1096, 1090, 1091, 1088, 1084, 1072, 1085>>,
            <<1074, 1086, 1076, 1080, 1090, 1077, 1083, 1100>>,
            <<1075, 1088, 1091, 1079, 1095, 1080, 1082>>,
            <<1084, 1077, 1093, 1072, 1085, 1080, 1082>> >>

(* ---------------------------- bounds ------------------------------------ *)

\* the roster never grows beyond MaxMembers records in the explored runs
MaxMembers == 3

(* ---------------------------- str helpers ------------------------------- *)

\* characters str.strip() removes: space, \t, \n, \v, \f, \r
IsSpace(c) == c \in {32, 9, 10, 11, 12, 13}

RECURSIVE LStrip(_)
LStrip(s) == IF s # <<>> /\ IsSpace(Head(s)) THEN LStrip(Tail(s)) ELSE s

RECURSIVE RStrip(_)
RStrip(s) ==
    IF s # <<>> /\ IsSpace(s[Len(s)]) THEN RStrip(SubSeq(s, 1, Len(s) - 1)) ELSE s

\* str.strip()
Strip(s) == RStrip(LStrip(s))

\* str.lower() on one character: A-Z, Cyrillic A-YA, Cyrillic IO
LowerChar(c) ==
    IF c \in 65..90 THEN c + 32
    ELSE IF c \in 1040..1071 THEN c + 32
    ELSE IF c = 1025 THEN 1105
    ELSE c

\* str.lower()
Lower(s) == [i \in 1..Len(s) |-> LowerChar(s[i])]

\* a < b for Python str: lexicographic by code point
RECURSIVE StrLess(_, _)
StrLess(a, b) ==
    IF b = <<>> THEN FALSE
    ELSE IF a = <<>> THEN TRUE
    ELSE IF Head(a) # Head(b) THEN Head(a) < Head(b)
    ELSE StrLess(Tail(a), Tail(b))

\* sep.join(parts)
RECURSIVE Join(_, _)
Join(sep, parts) ==
    IF parts = <<>> THEN <<>>
    ELSE IF Len(parts) = 1 THEN parts[1]
    ELSE parts[1] \o sep \o Join(sep, Tail(parts))

\* x in ROLES
InROLES(x) == \E i \in 1..Len(ROLES) : ROLES[i] = x

\* normalize_name() as it would be if it also folded the letter case
normalize_name_folding(value) == Lower(Strip(value))

normalize_name(value) == Strip(value)

normalize_name_key(value) == Lower(Strip(value))

normalize_role(value) == Lower(Strip(value))

(* ---------------------------- literal texts ----------------------------- *)

\* OK
S_OK ==
    <<79, 75>>

\* ERR
S_ERR ==
    <<69, 82, 82>>

\* ': '
S_colon ==
    <<58, 32>>

\* ', '
S_comma ==
    <<44, 32>>

\* '"'
S_quote ==
    <<34>>

\* unknown command
S_unknown_command ==
    <<117, 110, 107, 110, 111, 119, 110, 32, 99, 111, 109, 109, 97, 110,
    100>>

\* ERR: unknown command
S_err_unknown_command ==
    <<69, 82, 82, 58, 32, 117, 110, 107, 110, 111, 119, 110, 32, 99, 111,
    109, 109, 97, 110, 100>>

\* ERR: oshibka chteniya fajla dannyh (line 54)
S_err_read ==
    <<69, 82, 82, 58, 32, 1086, 1096, 1080, 1073, 1082, 1072, 32, 1095,
    1090, 1077, 1085, 1080, 1103, 32, 1092, 1072, 1081, 1083, 1072, 32,
    1076, 1072, 1085, 1085, 1099, 1093>>

\* rol' dolzhna byt' odnoj iz:  (line 77)
S_role_must_be ==
    <<1088, 1086, 1083, 1100, 32, 1076, 1086, 1083, 1078, 1085, 1072, 32,
    1073, 1099, 1090, 1100, 32, 1086, 1076, 1085, 1086, 1081, 32, 1080,
    1079, 58, 32>>

\* imya dolzhno byt' 2-40 simvolov (bukvy, probel, defis) (lines 82, 88)
S_name_must_be ==
    <<1080, 1084, 1103, 32, 1076, 1086, 1083, 1078, 1085, 1086, 32, 1073,
    1099, 1090, 1100, 32, 50, 8211, 52, 48, 32, 1089, 1080, 1084, 1074,
    1086, 1083, 1086, 1074, 32, 40, 1073, 1091, 1082, 1074, 1099, 44, 32,
    1087, 1088, 1086, 1073, 1077, 1083, 44, 32, 1076, 1077, 1092, 1080,
    1089, 41>>

\* takoe imya uzhe sushchestvuet (line 97)
S_name_exists ==
    <<1090, 1072, 1082, 1086, 1077, 32, 1080, 1084, 1103, 32, 1091, 1078,
    1077, 32, 1089, 1091, 1097, 1077, 1089, 1090, 1074, 1091, 1077, 1090>>

\* dobavlen " (line 104)
S_added ==
    <<1076, 1086, 1073, 1072, 1074, 1083, 1077, 1085, 32, 34>>

\* " ( (line 104)
S_added_mid ==
    <<34, 32, 40>>

\* ) (line 104)
S_rparen ==
    <<41>>

\* zapis' s imenem " (line 141)
S_record_named ==
    <<1079, 1072, 1087, 1080, 1089, 1100, 32, 1089, 32, 1080, 1084, 1077,
    1085, 1077, 1084, 32, 34>>

\* " ne najdena (line 141)
S_not_found ==
    <<34, 32, 1085, 1077, 32, 1085, 1072, 1081, 1076, 1077, 1085, 1072>>

\* udalyon " (line 150)
S_removed ==
    <<1091, 1076, 1072, 1083, 1105, 1085, 32, 34>>

\* net zapisej (line 162)
S_no_records ==
    <<1085, 1077, 1090, 32, 1079, 1072, 1087, 1080, 1089, 1077, 1081>>

\* ) (line 165)
S_item_sep ==
    <<41, 32>>

\*  -- with an em dash (line 165)
S_dash ==
    <<32, 8212, 32>>

\* the banner (line 173)
S_banner ==
    <<1059, 1095, 1105, 1090, 32, 1101, 1082, 1089, 1087, 1077, 1076, 1080,
    1094, 1080, 1080, 32, 40, 67, 76, 73, 41, 46, 32, 1042, 1074, 1077,
    1076, 1080, 1090, 1077, 32, 34, 104, 101, 108, 112, 34, 32, 1076, 1083,
    1103, 32, 1089, 1087, 1088, 1072, 1074, 1082, 1080, 44, 32, 34, 101,
    120, 105, 116, 34, 32, 1076, 1083, 1103, 32, 1074, 1099, 1093, 1086,
    1076, 1072, 46>>

\* Dostupnye komandy: (line 191)
S_help1 ==
    <<1044, 1086, 1089, 1090, 1091, 1087, 1085, 1099, 1077, 32, 1082, 1086,
    1084, 1072, 1085, 1076, 1099, 58>>

\*   add <Imya> <Rol'> (line 192)
S_help2 ==
    <<32, 32, 97, 100, 100, 32, 60, 1048, 1084, 1103, 62, 32, 60, 1056,
    1086, 1083, 1100, 62>>

\*   list (line 193)
S_help3 ==
    <<32, 32, 108, 105, 115, 116>>

\*   list --role <Rol'> (line 194)
S_help4 ==
    <<32, 32, 108, 105, 115, 116, 32, 45, 45, 114, 111, 108, 101, 32, 60,
    1056, 1086, 1083, 1100, 62>>

\*   count (line 195)
S_help5 ==
    <<32, 32, 99, 111, 117, 110, 116>>

\*   remove <Imya> (line 196)
S_help6 ==
    <<32, 32, 114, 101, 109, 111, 118, 101, 32, 60, 1048, 1084, 1103, 62>>

\*   help | exit (line 197)
S_help7 ==
    <<32, 32, 104, 101, 108, 112, 32, 124, 32, 101, 120, 105, 116>>

\* ERR: ispol'zujte: add <Imya> <Rol'> (line 203)
S_usage_add ==
    <<69, 82, 82, 58, 32, 1080, 1089, 1087, 1086, 1083, 1100, 1079, 1091,
    1081, 1090, 1077, 58, 32, 97, 100, 100, 32, 60, 1048, 1084, 1103, 62,
    32, 60, 1056, 1086, 1083, 1100, 62>>

\* ERR: ispol'zujte: remove <Imya> (line 230)
S_usage_remove ==
    <<69, 82, 82, 58, 32, 1080, 1089, 1087, 1086, 1083, 1100, 1079, 1091,
    1081, 1090, 1077, 58, 32, 114, 101, 109, 111, 118, 101, 32, 60, 1048,
    1084, 1103, 62>>

\* Vsego uchastnikov:  (line 225)
S_total ==
    <<1042, 1089, 1077, 1075, 1086, 32, 1091, 1095, 1072, 1089, 1090, 1085,
    1080, 1082, 1086, 1074, 58, 32>>

\* exit
S_exit ==
    <<101, 120, 105, 116>>

\* quit
S_quit ==
    <<113, 117, 105, 116>>

\* help
S_help ==
    <<104, 101, 108, 112>>

\* --help
S_dashdash_help ==
    <<45, 45, 104, 101, 108, 112>>

\* -h
S_dash_h ==
    <<45, 104>>

\* add
S_add ==
    <<97, 100, 100>>

\* list
S_list ==
    <<108, 105, 115, 116>>

\* --role
S_dashdash_role ==
    <<45, 45, 114, 111, 108, 101>>

\* count
S_count ==
    <<99, 111, 117, 110, 116>>

\* remove
S_remove ==
    <<114, 101, 109, 111, 118, 101>>

(* ---------------------------- more str helpers -------------------------- *)

\* str(n) for a non-negative int
RECURSIVE IntStr(_)
IntStr(n) == IF n < 10 THEN <<48 + n>> ELSE IntStr(n \div 10) \o <<48 + (n % 10)>>

\* str.split(): the maximal runs of non-whitespace characters
RECURSIVE SplitFrom(_, _, _)
SplitFrom(s, cur, acc) ==
    IF s = <<>> THEN (IF cur = <<>> THEN acc ELSE Append(acc, cur))
    ELSE IF IsSpace(Head(s))
         THEN SplitFrom(Tail(s), <<>>, IF cur = <<>> THEN acc ELSE Append(acc, cur))
         ELSE SplitFrom(Tail(s), Append(cur, Head(s)), acc)

Split(s) == SplitFrom(s, <<>>, <<>>)

\* the character class [A-Za-zA-YAa-yaIOio -] of both patterns of add()
NameChar(c) ==
    \/ c \in 65..90
    \/ c \in 97..122
    \/ c \in 1040..1071
    \/ c \in 1072..1103
    \/ c = 1025
    \/ c = 1105
    \/ c = 32
    \/ c = 45

\* re.fullmatch(r"^[...]{lo,hi}$", name) is not None
FullMatch(lo, hi, name) ==
    /\ lo <= Len(name)
    /\ Len(name) <= hi
    /\ \A i \in 1..Len(name) : NameChar(name[i])

(* ---------------------------- the backing file -------------------------- *)

\* os.path.exists(path) is False
AbsentFile == [kind |-> "absent", data |-> <<>>]

\* what json.dump(members, f) leaves in the file: a JSON list of the records
json_dump(ms) == [kind |-> "list", data |-> ms]

\* a file whose content json.load() rejects
GarbageFile == [kind |-> "garbage", data |-> <<>>]

\* a JSON value that is no member record: the number 1
NotARecord == [value |-> 1]

\* a file holding a JSON list whose element is no member record: [1]
BadListFile == json_dump(<<NotARecord>>)

\* m is a dict with the keys "name" and "role"
IsMember(m) == DOMAIN m = {"name", "role"}

\* a loop over ms that subscripts each element and stops at the first index
\* where stops holds reaches an element that is no record: m["name"] raises
scan_raises(ms, stops) ==
    \E i \in 1..Len(ms) :
        /\ ~IsMember(ms[i])
        /\ \A j \in 1..(i - 1) : ~stops[j]

\* a pass over all of ms that subscripts each element raises
subscript_raises(ms) == \E i \in 1..Len(ms) : ~IsMember(ms[i])

\* load(): the roster read from file f
load(f) ==
    IF f.kind # "absent"
    THEN IF f.kind = "garbage" THEN <<>>
         ELSE IF f.kind = "list" THEN f.data ELSE <<>>
    ELSE <<>>

\* load(): the lines it prints
load_out(f) == IF f.kind = "garbage" THEN <<S_err_read>> ELSE <<>>

\* save(): the file after saving roster ms over file f
save(ms, f) == IF BUG_MODE /\ Len(ms) = 0 THEN f ELSE json_dump(ms)

(* ---------------------------- sorted() ---------------------------------- *)

\* where sorted() puts record x among the already placed records acc: behind
\* every record that does not have to follow it, so that records with equal
\* names keep their order (also with reverse=True)
RECURSIVE InsertByName(_, _, _)
InsertByName(x, acc, reverse) ==
    IF acc = <<>> THEN <<x>>
    ELSE IF (IF reverse THEN StrLess(Head(acc).name, x.name)
                        ELSE StrLess(x.name, Head(acc).name))
         THEN <<x>> \o acc
         ELSE <<Head(acc)>> \o InsertByName(x, Tail(acc), reverse)

RECURSIVE SortInto(_, _, _)
SortInto(items, acc, reverse) ==
    IF items = <<>> THEN acc
    ELSE SortInto(Tail(items), InsertByName(Head(items), acc, reverse), reverse)

\* sorted(items, key=lambda x: x["name"], reverse=reverse)
sorted(items, reverse) == SortInto(items, <<>>, reverse)

(* ---------------------------- Store operations -------------------------- *)

\* add(): the role passes the validation of line 73
add_role_ok(role_in) ==
    InROLES(IF BUG_MODE THEN Lower(role_in) ELSE normalize_role(role_in))

\* add(): the message returned for a rejected role
add_role_msg ==
    IF BUG_MODE THEN S_unknown_command
    ELSE S_role_must_be \o Join(S_comma, ROLES)

\* add(): the name passes the validation of lines 80-88
add_name_ok(name) ==
    IF ~BUG_MODE
    THEN (2 <= Len(name) /\ Len(name) <= 40) /\ FullMatch(2, 40, name)
    ELSE FullMatch(0, 40, name)

\* add(): the comparison of one record with the new name, lines 92 and 95
add_same_name(m, name) ==
    IF BUG_MODE
    THEN m.name = name
    ELSE normalize_name_key(m.name) = normalize_name_key(name)

\* add(): exists, the uniqueness check of lines 91-95
add_exists(ms, name) ==
    \E i \in 1..Len(ms) : IsMember(ms[i]) /\ add_same_name(ms[i], name)

\* add(): the uniqueness check is reached and raises on an element that is
\* no record
add_raises(ms, name_arg, role_arg) ==
    LET name == normalize_name(name_arg)
        same == [i \in 1..Len(ms) |->
                    IsMember(ms[i]) /\ add_same_name(ms[i], name)]
    IN  /\ add_role_ok(Strip(role_arg))
        /\ add_name_ok(name)
        /\ scan_raises(ms, same)

\* add(): stored_role
add_stored_role(role_in) == IF BUG_MODE THEN role_in ELSE normalize_role(role_in)

\* add(): shown_role
add_shown_role(stored_role) ==
    IF BUG_MODE THEN stored_role ELSE normalize_role(stored_role)

\* add(name, role) on roster ms and file f: the pair returned, the roster and
\* the file it leaves
add(ms, f, name_arg, role_arg) ==
    LET name == normalize_name(name_arg)
        role_in == Strip(role_arg)
    IN  IF ~add_role_ok(role_in)
        THEN [status |-> S_ERR, msg |-> add_role_msg, members |-> ms, file |-> f]
        ELSE IF ~add_name_ok(name)
        THEN [status |-> S_ERR, msg |-> S_name_must_be, members |-> ms, file |-> f]
        ELSE IF add_exists(ms, name)
        THEN [status |-> S_ERR, msg |-> S_name_exists, members |-> ms, file |-> f]
        ELSE LET stored_role == add_stored_role(role_in)
                 ms2 == Append(ms, [name |-> name, role |-> stored_role])
             IN  [status |-> S_OK,
                  msg |-> S_added \o name \o S_added_mid
                          \o add_shown_role(stored_role) \o S_rparen,
                  members |-> ms2,
                  file |-> save(ms2, f)]

\* list_all(): the roster that is sorted, re-read from the file under BUG_MODE
list_all_members(ms, f) == IF BUG_MODE THEN load(f) ELSE ms

\* list_all(): the lines load() prints
list_all_out(f) == IF BUG_MODE THEN load_out(f) ELSE <<>>

\* list_all(): the key function of sorted() raises
list_all_raises(ms, f) == subscript_raises(list_all_members(ms, f))

\* list_all() on roster ms and file f: the list returned, the roster it
\* leaves and the lines load() prints
list_all(ms, f) ==
    IF BUG_MODE
    THEN [items |-> sorted(load(f), TRUE), members |-> load(f), out |-> load_out(f)]
    ELSE [items |-> sorted(ms, FALSE), members |-> ms, out |-> <<>>]

\* list_by_role(): the filter of lines 115-121
role_matches(m, role_arg) ==
    IF ~BUG_MODE
    THEN normalize_role(m.role) = normalize_role(Strip(role_arg))
    ELSE m.role = Strip(role_arg)

\* list_by_role(): the list comprehension raises
list_by_role_raises(ms) == subscript_raises(ms)

\* list_by_role(role) on roster ms: the list returned
list_by_role(ms, role_arg) ==
    LET P(m) == role_matches(m, role_arg)
        items == SelectSeq(ms, P)
        reverse == BUG_MODE
    IN  sorted(items, reverse)

\* remove(): a record at index i is the one searched for
remove_matches(m, name) ==
    IF BUG_MODE
    THEN m.name = name
    ELSE normalize_name_key(m.name) = normalize_name_key(name)

\* remove(): the search loop raises on an element that is no record
remove_raises(ms, name_arg) ==
    LET found == [i \in 1..Len(ms) |->
                    IsMember(ms[i])
                    /\ remove_matches(ms[i], normalize_name(name_arg))]
    IN  scan_raises(ms, found)

\* remove(): idx, the first matching index, 0 for None
remove_idx(ms, name) ==
    IF \E i \in 1..Len(ms) : IsMember(ms[i]) /\ remove_matches(ms[i], name)
    THEN CHOOSE i \in 1..Len(ms) :
            /\ IsMember(ms[i]) /\ remove_matches(ms[i], name)
            /\ \A j \in 1..(i - 1) : ~(IsMember(ms[j]) /\ remove_matches(ms[j], name))
    ELSE 0

\* del self.members[idx]
del(ms, idx) == SubSeq(ms, 1, idx - 1) \o SubSeq(ms, idx + 1, Len(ms))

\* remove(name) on roster ms and file f: the pair returned, the roster and the
\* file it leaves
remove(ms, f, name_arg) ==
    LET name == normalize_name(name_arg)
        idx == remove_idx(ms, name)
    IN  IF idx = 0
        THEN [status |-> S_ERR,
              msg |-> S_record_named \o name \o S_not_found,
              members |-> ms, file |-> f]
        ELSE LET ms2 == del(ms, idx)
             IN  [status |-> S_OK,
                  msg |-> S_removed \o name \o S_quote,
                  members |-> ms2,
                  file |-> IF ~(BUG_MODE /\ Len(ms2) = 0) THEN save(ms2, f) ELSE f]

\* count() on roster ms
count(ms) ==
    IF BUG_MODE
    THEN (IF 0 > Len(ms) - 1 THEN 0 ELSE Len(ms) - 1)
    ELSE Len(ms)

(* ---------------------------- printers ---------------------------------- *)

\* print_list(items): the lines printed
print_list(items) ==
    IF items = <<>> THEN <<S_no_records>>
    ELSE [i \in 1..Len(items) |->
            IntStr(i) \o S_item_sep \o items[i].name \o S_dash \o items[i].role]

(* ---------------------------- calls and their results ------------------- *)

\* the record of the last call made on the Store: the method, its arguments
\* and what it returned
Call(op, name, role, status, msg, items, n) ==
    [op |-> op, name |-> name, role |-> role, status |-> status, msg |-> msg,
     items |-> items, n |-> n]

NoCall == Call("none", <<>>, <<>>, <<>>, <<>>, <<>>, 0)

\* store.add(name, role) as a step: the call record, the lines the command
\* loop prints for it, and the roster and file left
\* a call that raised: nothing is returned or printed, and the exception,
\* which nothing catches, ends the process
do_raise(op, name, role, ms, f, lines) ==
    [call |-> Call(op, name, role, <<>>, <<>>, <<>>, 0),
     out |-> lines, members |-> ms, file |-> f, pc |-> "crashed"]

do_add(ms, f, name, role) ==
    IF add_raises(ms, name, role)
    THEN do_raise("add", name, role, ms, f, <<>>)
    ELSE LET r == add(ms, f, name, role)
         IN  [call |-> Call("add", name, role, r.status, r.msg, <<>>, 0),
              out |-> <<r.status \o S_colon \o r.msg>>,
              members |-> r.members, file |-> r.file, pc |-> "repl"]

do_list_all(ms, f) ==
    IF list_all_raises(ms, f)
    THEN do_raise("list_all", <<>>, <<>>, list_all_members(ms, f), f,
                  list_all_out(f))
    ELSE LET r == list_all(ms, f)
         IN  [call |-> Call("list_all", <<>>, <<>>, <<>>, <<>>, r.items, 0),
              out |-> r.out \o print_list(r.items),
              members |-> r.members, file |-> f, pc |-> "repl"]

do_list_by_role(ms, f, role) ==
    IF list_by_role_raises(ms)
    THEN do_raise("list_by_role", <<>>, role, ms, f, <<>>)
    ELSE LET items == list_by_role(ms, role)
         IN  [call |-> Call("list_by_role", <<>>, role, <<>>, <<>>, items, 0),
              out |-> print_list(items),
              members |-> ms, file |-> f, pc |-> "repl"]

do_remove(ms, f, name) ==
    IF remove_raises(ms, name)
    THEN do_raise("remove", name, <<>>, ms, f, <<>>)
    ELSE LET r == remove(ms, f, name)
         IN  [call |-> Call("remove", name, <<>>, r.status, r.msg, <<>>, 0),
              out |-> <<r.status \o S_colon \o r.msg>>,
              members |-> r.members, file |-> r.file, pc |-> "repl"]

do_count(ms, f) ==
    [call |-> Call("count", <<>>, <<>>, <<>>, <<>>, <<>>, count(ms)),
     out |-> <<S_total \o IntStr(count(ms))>>,
     members |-> ms, file |-> f, pc |-> "repl"]

\* a step of the command loop that calls no Store method and prints lines
do_print(ms, f, lines, pcNew) ==
    [call |-> NoCall, out |-> lines, members |-> ms, file |-> f, pc |-> pcNew]

(* ---------------------------- the command loop -------------------------- *)

\* one pass of the while loop of repl() on the input line raw
repl_line(ms, f, raw) ==
    LET line == Strip(raw)
        parts == Split(line)
        cmd == Lower(parts[1])
    IN  IF line = <<>> THEN do_print(ms, f, <<>>, "repl")
        ELSE IF cmd \in {S_exit, S_quit} THEN do_print(ms, f, <<>>, "exited")
        ELSE IF cmd \in {S_help, S_dashdash_help, S_dash_h}
        THEN do_print(ms, f,
                      <<S_help1, S_help2, S_help3, S_help4, S_help5, S_help6,
                        S_help7>>, "repl")
        ELSE IF cmd = S_add
        THEN IF Len(parts) < 3
             THEN do_print(ms, f,
                           <<IF BUG_MODE THEN S_err_unknown_command
                                         ELSE S_usage_add>>, "repl")
             ELSE do_add(ms, f, parts[2], Join(<<32>>, SubSeq(parts, 3, Len(parts))))
        ELSE IF cmd = S_list
        THEN IF Len(parts) = 1 THEN do_list_all(ms, f)
             ELSE IF Len(parts) >= 3 /\ parts[2] = S_dashdash_role
             THEN do_list_by_role(ms, f, Join(<<32>>, SubSeq(parts, 3, Len(parts))))
             ELSE do_print(ms, f, <<S_err_unknown_command>>, "repl")
        ELSE IF cmd = S_count THEN do_count(ms, f)
        ELSE IF cmd = S_remove
        THEN IF Len(parts) < 2
             THEN do_print(ms, f, <<S_usage_remove>>, "repl")
             ELSE do_remove(ms, f, Join(<<32>>, SubSeq(parts, 2, Len(parts))))
        ELSE do_print(ms, f, <<S_err_unknown_command>>, "repl")

(* ---------------------------- inputs ------------------------------------ *)

\* c repeated n times
RECURSIVE Rep(_, _)
Rep(c, n) == IF n = 0 THEN <<>> ELSE <<c>> \o Rep(c, n - 1)

N_anna == <<97, 110, 110, 97>>
\* " Anna ", with surrounding spaces
N_Anna_sp == <<32, 65, 110, 110, 97, 32>>
N_Anna == <<65, 110, 110, 97>>
N_Zoya == <<90, 111, 121, 97>>
N_Boris == <<66, 111, 114, 105, 115>>
\* "B", one character
N_B == <<66>>
\* "a1", with a digit
N_a1 == <<97, 49>>
N_Ann == <<65, 110, 110>>
N_len41 == Rep(97, 41)
\* "  ", only spaces
N_blank == <<32, 32>>

\* "shturman"
R_shturman == ROLES[1]
\* " Shturman ", capitalised, with surrounding spaces
R_Shturman_sp == <<32, 1064, 1090, 1091, 1088, 1084, 1072, 1085, 32>>
R_Shturman == <<1064, 1090, 1091, 1088, 1084, 1072, 1085>>
\* "mehanik"
R_mehanik == ROLES[4]
\* "pilot", not a role
R_pilot == <<1087, 1080, 1083, 1086, 1090>>
\* "BadRole"
R_BadRole == <<66, 97, 100, 82, 111, 108, 101>>

\* the (name, role) pairs passed to add(): every storable name comes with one
\* role, so that the rosters explored stay few
AddArgs ==
    { <<N_anna, R_shturman>>,
      <<N_Anna_sp, R_Shturman_sp>>,
      <<N_Zoya, R_mehanik>>,
      <<N_Boris, R_shturman>>,
      <<N_B, R_mehanik>>,
      <<N_blank, R_shturman>>,
      <<N_a1, R_shturman>>,
      <<N_len41, R_shturman>>,
      <<N_anna, R_pilot>>,
      <<N_a1, R_pilot>> }

\* the names passed to remove()
Names == {N_anna, N_Anna_sp, N_Zoya, N_Boris, N_B, N_blank, N_a1}

\* the roles passed to list_by_role()
Roles == {R_shturman, R_Shturman_sp, R_mehanik, R_pilot}

\* words typed with one space between them
Typed(words) == Join(<<32>>, words)

\* the lines typed at the prompt
Lines ==
    { <<>>,
      Typed(<<S_add, N_Ann>>),
      Typed(<<S_add, N_Ann, R_BadRole>>),
      Typed(<<S_add, N_anna, R_shturman>>),
      Typed(<<<<65, 68, 68>>, N_Anna, <<>>, R_Shturman>>),
      Typed(<<S_list>>),
      Typed(<<S_list, S_dashdash_role, R_Shturman>>),
      Typed(<<S_list, <<120>>>>),
      Typed(<<S_count>>),
      Typed(<<S_remove>>),
      Typed(<<S_remove, N_anna>>),
      Typed(<<<<102, 111, 111>>>>),
      Typed(<<S_help>>),
      Typed(<<S_exit>>) }

\* the backing file before the first start
InitFiles ==
    {AbsentFile, json_dump(<<>>), GarbageFile, [kind |-> "object", data |-> <<>>],
     BadListFile}

(* ---------------------------- the state machine ------------------------- *)

NoLine == [typed |-> FALSE, text |-> <<>>]

\* no remove() has returned OK, or the name it removed was added again
NoRemoved == [some |-> FALSE, name |-> <<>>]

\* the name of the last remove() that returned OK, until an add() of that
\* name (ignoring case) returns OK
UpdRemoved(rem, call) ==
    IF call.op = "remove" /\ call.status = S_OK
    THEN [some |-> TRUE, name |-> normalize_name(call.name)]
    ELSE IF /\ call.op = "add" /\ call.status = S_OK /\ rem.some
            /\ normalize_name_key(rem.name) = normalize_name_key(call.name)
    THEN NoRemoved
    ELSE rem

\* repl() up to the first prompt: Store() loads the file, the banner is printed
Start(f) ==
    /\ file' = f
    /\ members' = load(f)
    /\ out' = load_out(f) \o <<S_banner>>
    /\ ret' = NoCall
    /\ input' = NoLine
    /\ pc' = "repl"

Init ==
    /\ file \in InitFiles
    /\ members = load(file)
    /\ out = load_out(file) \o <<S_banner>>
    /\ ret = NoCall
    /\ input = NoLine
    /\ pc = "repl"
    /\ removed = NoRemoved

\* a call of a Store method by its owner: r is the do_ record of the call
Apply(r, printed, typed) ==
    /\ Len(r.members) <= MaxMembers
    /\ members' = r.members
    /\ file' = r.file
    /\ ret' = r.call
    /\ out' = printed
    /\ input' = typed
    /\ pc' = r.pc
    /\ removed' = UpdRemoved(removed, r.call)

Add(name, role) ==
    /\ pc = "repl"
    /\ Apply(do_add(members, file, name, role), <<>>, NoLine)

ListAll ==
    /\ pc = "repl"
    /\ Apply(do_list_all(members, file), list_all_out(file), NoLine)

ListByRole(role) ==
    /\ pc = "repl"
    /\ Apply(do_list_by_role(members, file, role), <<>>, NoLine)

Remove(name) ==
    /\ pc = "repl"
    /\ Apply(do_remove(members, file, name), <<>>, NoLine)

Count ==
    /\ pc = "repl"
    /\ Apply(do_count(members, file), <<>>, NoLine)

\* the command loop reads the line raw and handles it
Repl(raw) ==
    /\ pc = "repl"
    /\ LET r == repl_line(members, file, raw)
       IN  Apply(r, r.out, [typed |-> TRUE, text |-> raw])

\* input() raises EOFError or KeyboardInterrupt: an empty line is printed and
\* the loop ends
Eof ==
    /\ pc = "repl"
    /\ Apply(do_print(members, file, <<<<>>>>, "exited"), <<<<>>>>, NoLine)

\* the program is started again on the same backing file
Restart ==
    /\ pc \in {"exited", "crashed"}
    /\ Start(file)
    /\ UNCHANGED removed

Next ==
    \/ \E a \in AddArgs : Add(a[1], a[2])
    \/ ListAll
    \/ \E role \in Roles : ListByRole(role)
    \/ \E name \in Names : Remove(name)
    \/ Count
    \/ \E raw \in Lines : Repl(raw)
    \/ Eof
    \/ Restart

Spec == Init /\ [][Next]_vars

(* ---------------------------- helpers of the properties ----------------- *)

\* the last call was a call of method op and it returned
Returned(op) == ret.op = op /\ pc # "crashed"

\* the number of positions of seq that hold x
Occurrences(x, seq) == Cardinality({i \in 1..Len(seq) : seq[i] = x})

\* a and b hold the same records, each as often
SameRecords(a, b) ==
    /\ Len(a) = Len(b)
    /\ \A i \in 1..Len(a) : Occurrences(a[i], a) = Occurrences(a[i], b)

\* the names of items ascend under case-insensitive comparison
AscendingIgnoringCase(items) ==
    \A i \in 1..Len(items) : \A j \in 1..Len(items) :
        i < j => ~StrLess(Lower(items[j].name), Lower(items[i].name))

\* records whose names compare equal ignoring case stand in items in the order
\* they have in ms
TiesInRosterOrder(items, ms) ==
    \A i \in 1..Len(items) : \A j \in 1..Len(items) :
        (i < j /\ Lower(items[i].name) = Lower(items[j].name)) =>
            \E k \in 1..Len(ms) : \E l \in 1..Len(ms) :
                k < l /\ ms[k] = items[i] /\ ms[l] = items[j]

\* sub occurs in s as a contiguous run
Contains(s, sub) ==
    \E k \in 0..(Len(s) - Len(sub)) : SubSeq(s, k + 1, k + Len(sub)) = sub

\* the last input line is an add command
TypedAdd == input.typed /\ input.text # <<>> /\ Lower(Split(input.text)[1]) = S_add

\* the last input line is an add command without a role
TypedAddWithoutRole == TypedAdd /\ Len(Split(input.text)) < 3

\* the last input line is an add command whose role is none of ROLES
TypedAddWithBadRole ==
    /\ TypedAdd
    /\ Len(Split(input.text)) >= 3
    /\ LET parts == Split(input.text)
       IN  ~InROLES(Lower(Join(<<32>>, SubSeq(parts, 3, Len(parts)))))

(* ---------------------------- properties -------------------------------- *)

\* C1: right after an add() or remove() that returned OK the backing file
\* holds exactly the in-memory roster (an empty list when the roster is
\* empty), so that loading it gives the roster back.
C1_FileHoldsRoster ==
    (ret.op \in {"add", "remove"} /\ ret.status = S_OK) =>
        (file = json_dump(members) /\ load(file) = members)

\* C2: while the name of the last successful remove() has not been added
\* again, no list returned by list_all() or list_by_role() holds a member of
\* that name, in the same session and after a restart.
C2_RemovedNotListed ==
    (removed.some /\ ret.op \in {"list_all", "list_by_role"}) =>
        \A i \in 1..Len(ret.items) : ret.items[i].name # removed.name

\* C3: no two members of the roster have names that are equal ignoring case.
C3_NamesUniqueIgnoringCase ==
    \A i \in 1..Len(members) : \A j \in 1..Len(members) :
        (i # j /\ IsMember(members[i]) /\ IsMember(members[j])) =>
            normalize_name_key(members[i].name)
                # normalize_name_key(members[j].name)

\* C4: an add() that returned OK was given a name whose trimmed form has 2 to
\* 40 characters, all of them letters, spaces or hyphens, and every name in
\* the roster has 2 to 40 characters.
C4_NameLengthChecked ==
    /\ (ret.op = "add" /\ ret.status = S_OK) =>
            FullMatch(2, 40, Strip(ret.name))
    /\ \A i \in 1..Len(members) :
            IsMember(members[i]) =>
                (2 <= Len(members[i].name) /\ Len(members[i].name) <= 40)

\* C5: count() returns the number of members held in the roster.
C5_CountIsRosterSize == (ret.op = "count") => ret.n = Len(members)

\* C6: list_all() returns every member of the roster exactly once, ascending
\* by name under case-insensitive comparison, members with equal names in
\* roster order.
C6_ListAllAscending ==
    Returned("list_all") =>
        /\ SameRecords(ret.items, members)
        /\ AscendingIgnoringCase(ret.items)
        /\ TiesInRosterOrder(ret.items, members)

\* C7: list_by_role(role) returns exactly the members whose stored role
\* equals the trimmed argument ignoring case, each once, ascending by name.
C7_ListByRoleIgnoresCase ==
    Returned("list_by_role") =>
        LET Wanted(m) == normalize_role(m.role) = normalize_role(ret.role)
        IN  /\ SameRecords(ret.items, SelectSeq(members, Wanted))
            /\ AscendingIgnoringCase(ret.items)

\* C8: every role stored in the roster is one of the four lowercase labels of
\* ROLES, and an add() whose role matches no label ignoring case returns ERR.
C8_StoredRoleCanonical ==
    /\ \A i \in 1..Len(members) :
            IsMember(members[i]) => InROLES(members[i].role)
    /\ (ret.op = "add" /\ ~InROLES(Lower(Strip(ret.role)))) => ret.status = S_ERR

\* C9: an add line without a role and an add line with an invalid role each
\* print something other than the line printed for an unknown command, and
\* the line printed for the invalid role names every role of ROLES.
C9_FailuresDistinct ==
    /\ TypedAddWithoutRole => out # <<S_err_unknown_command>>
    /\ TypedAddWithBadRole =>
            /\ out # <<S_err_unknown_command>>
            /\ Len(out) = 1
            /\ \A i \in 1..Len(ROLES) : Contains(out[1], ROLES[i])

\* C10: a remove() whose trimmed argument equals the name of some member
\* ignoring case returns OK and deletes exactly one such member, leaving the
\* other members in their order.
C10_RemoveIgnoresCase ==
    [][(/\ ret'.op = "remove"
        /\ \E i \in 1..Len(members) :
              /\ IsMember(members[i])
              /\ normalize_name_key(members[i].name) = normalize_name_key(ret'.name))
       => (/\ ret'.status = S_OK
           /\ Len(members') = Len(members) - 1
           /\ \E i \in 1..Len(members) :
                 /\ IsMember(members[i])
                 /\ normalize_name_key(members[i].name)
                       = normalize_name_key(ret'.name)
                 /\ members' = del(members, i))]_vars

\* C11: a remove() whose trimmed argument equals the name of no member
\* ignoring case returns ERR with a message that holds that name, and leaves
\* the roster and the backing file as they were.
C11_RemoveUnknownName ==
    [][(/\ ret'.op = "remove"
        /\ \A i \in 1..Len(members) :
              IsMember(members[i]) =>
                  normalize_name_key(members[i].name)
                      # normalize_name_key(ret'.name))
       => (/\ pc' # "crashed"
           /\ ret'.status = S_ERR
           /\ Contains(ret'.msg, Strip(ret'.name))
           /\ members' = members
           /\ file' = file)]_vars

\* C12: the roster is a sequence of member records, it is empty while the
\* backing file is absent or holds anything but a list, and no call made on
\* it fails.
C12_LoadGivesRecords ==
    /\ \A i \in 1..Len(members) : IsMember(members[i])
    /\ file.kind # "list" => members = <<>>
    /\ pc # "crashed"

\* C13: list_all(), list_by_role() and count() change neither the in-memory
\* roster nor the backing file.
C13_ListingsReadOnly ==
    [][ret'.op \in {"list_all", "list_by_role", "count"}
       => (members' = members /\ file' = file)]_vars

\* C14: an add() that returned OK has appended one record to the roster, named
\* by the argument with its surrounding whitespace trimmed and its letter case
\* kept, and has left the records before it as they were.
C14_AddAppendsTrimmedName ==
    [][(ret'.op = "add" /\ ret'.status = S_OK)
       => (/\ Len(members') = Len(members) + 1
           /\ SubSeq(members', 1, Len(members)) = members
           /\ IsMember(members'[Len(members')])
           /\ members'[Len(members')].name = Strip(ret'.name))]_vars

\* a successful add() of a name that had surrounding whitespace and a capital
\* letter, onto a roster that already held two records
C14_Witness ==
    /\ ret.op = "add" /\ ret.status = S_OK
    /\ ret.name = N_Anna_sp
    /\ Len(members) = 3
    /\ members[3].name = N_Anna

\* C15: add() reports the first failing check in the order role, name format,
\* uniqueness: with an invalid role it returns ERR and neither the name-format
\* nor the duplicate-name message, and with a valid role and a name that is
\* not 2 to 40 letters, spaces or hyphens it returns the name-format message.
C15_AddChecksInOrder ==
    (ret.op = "add" /\ pc # "crashed") =>
        /\ ~InROLES(Lower(Strip(ret.role))) =>
                (ret.status = S_ERR /\ ret.msg \notin {S_name_must_be, S_name_exists})
        /\ (InROLES(Lower(Strip(ret.role))) /\ ~FullMatch(2, 40, Strip(ret.name))) =>
                (ret.status = S_ERR /\ ret.msg = S_name_must_be)

\* C16: an add() that returned ERR has left the roster and the backing file
\* as they were, and every add() and remove() returns with status OK or ERR.
C16_AddErrChangesNothing ==
    [][/\ (ret'.op = "add" /\ ret'.status = S_ERR)
            => (members' = members /\ file' = file)
       /\ ret'.op \in {"add", "remove"}
            => (pc' # "crashed" /\ ret'.status \in {S_OK, S_ERR})]_vars

====
